---- MODULE Spec2Model ----
(***************************************************************************)
(* pac-boussole: one invocation of boussole.main() on a pull request.      *)
(*                                                                         *)
(* The state is the PRHandler object, the local variables of the handler   *)
(* that is running, the program counter of the invocation, the list of     *)
(* remote requests issued so far and the way the process ended.  Every     *)
(* remote request is one step: the answer of the remote side is chosen     *)
(* there.  Text (comment bodies, check names) is a sequence of characters  *)
(* so that the regular expressions and endswith() are computed.            *)
(***************************************************************************)
EXTENDS Integers, Sequences, FiniteSets, TLC

\* ------------------------------------------------------------------ bounds
MaxComments == 2
MaxChecks == 2
MaxThreshold == 2
MaxCommits == 2
MaxValues == 2

\* ------------------------------------------------------------- configuration
pr_sender == "test_user"
comment_sender == "reviewer"
Logins == {"test_user", "Test_User", "reviewer"}
lgtm_permissions == {"admin", "write"}
MergeMethods == {"squash"}
None == "None"

\* ---------------------------------------------------------------------- text
Str_lgtm == <<"/", "l", "g", "t", "m">>
Str_LGTM == <<"/", "L", "G", "T", "M">>
Str_lgtmx == <<"/", "l", "g", "t", "m", "x">>
Str_cherry_pick == <<"/", "c", "h", "e", "r", "r", "y", "-", "p", "i", "c", "k">>
Str_b1 == <<"b", "1">>
Str_b2 == <<"b", "2">>
Str_cp_b1 == Str_cherry_pick \o <<" ">> \o Str_b1
Str_Cherry_Pick == <<"/", "C", "h", "e", "r", "r", "y", "-", "P", "i", "c", "k">>
Str_CP_b2 == Str_Cherry_Pick \o <<" ", " ">> \o Str_b2 \o <<" ", "x">>
Str_CP_b1 == Str_Cherry_Pick \o <<"\t">> \o Str_b1
Str_boussole_suffix == <<" ", "/", " ", "b", "o", "u", "s", "s", "o", "l", "e">>
Str_ci == <<"c", "i">>
Str_ci_boussole == Str_ci \o Str_boussole_suffix

UpperOf == [c \in {"l", "g", "t", "m", "c", "p"} |->
              CASE c = "l" -> "L" [] c = "g" -> "G" [] c = "t" -> "T"
                [] c = "m" -> "M" [] c = "c" -> "C" [] c = "p" -> "P"]

\* str.lower() of one character (the letters the inputs use)
Lower(c) == IF \E l \in DOMAIN UpperOf : UpperOf[l] = c
            THEN CHOOSE l \in DOMAIN UpperOf : UpperOf[l] = c
            ELSE c

LowerStr(s) == [k \in 1..Len(s) |-> Lower(s[k])]

\* \w of the re module
IsWordChar(c) == c \in {"a", "b", "c", "e", "g", "h", "i", "k", "l", "m", "o", "p", "r",
                        "s", "t", "u", "x", "y", "C", "G", "L", "M", "P", "T",
                        "0", "1", "2", "_"}

\* \s of the re module
IsSpace(c) == c \in {" ", "\n", "\t"}

\* re.search(r"^/lgtm\b", body, re.IGNORECASE)
LgtmMatch(body) ==
    /\ Len(body) >= Len(Str_lgtm)
    /\ LowerStr(SubSeq(body, 1, Len(Str_lgtm))) = Str_lgtm
    /\ (Len(body) = Len(Str_lgtm) \/ ~IsWordChar(body[Len(Str_lgtm) + 1]))

\* re.match(r"^/cherry-pick\s+(\S+)", body, re.IGNORECASE): <<group(1)>>, or <<>> for no match
CherryPickMatch(body) ==
    LET p == Len(Str_cherry_pick)
        n == Len(body)
    IN  IF /\ n >= p + 2
           /\ LowerStr(SubSeq(body, 1, p)) = Str_cherry_pick
           /\ IsSpace(body[p + 1])
        THEN LET s == CHOOSE j \in (p + 2)..(n + 1) :
                          /\ \A k \in (p + 1)..(j - 1) : IsSpace(body[k])
                          /\ (j = n + 1 \/ ~IsSpace(body[j]))
                 e == CHOOSE j \in s..(n + 1) :
                          /\ \A k \in s..(j - 1) : ~IsSpace(body[k])
                          /\ (j = n + 1 \/ IsSpace(body[j]))
             IN  IF s > n THEN <<>> ELSE <<SubSeq(body, s, e - 1)>>
        ELSE <<>>

\* str.endswith
EndsWith(s, suffix) ==
    /\ Len(s) >= Len(suffix)
    /\ SubSeq(s, Len(s) - Len(suffix) + 1, Len(s)) = suffix


\* ------------------------------------------------------- the trigger comment
Str_rebase == <<"r", "e", "b", "a", "s", "e">>
Str_merge == <<"m", "e", "r", "g", "e">>
Str_assign == <<"a", "s", "s", "i", "g", "n">>
Str_unassign == <<"u", "n", "a", "s", "s", "i", "g", "n">>
Str_label == <<"l", "a", "b", "e", "l">>
Str_unlabel == <<"u", "n", "l", "a", "b", "e", "l">>
Str_help == <<"h", "e", "l", "p">>
Str_bug == <<"b", "u", "g">>
Str_wip == <<"w", "i", "p">>
Str_at_u1 == <<"@", "u", "1">>
Str_u1 == <<"u", "1">>
Str_u2 == <<"u", "2">>

\* the alternatives of main()'s pattern, in the order the pattern tries them
CommandPattern ==
    <<[name |-> "rebase", text |-> Str_rebase],
      [name |-> "cherry-pick", text |-> Tail(Str_cherry_pick)],
      [name |-> "merge", text |-> Str_merge],
      [name |-> "assign", text |-> Str_assign],
      [name |-> "unassign", text |-> Str_unassign],
      [name |-> "label", text |-> Str_label],
      [name |-> "unlabel", text |-> Str_unlabel],
      [name |-> "lgtm", text |-> Tail(Str_lgtm)],
      [name |-> "help", text |-> Str_help]>>

\* str.lstrip(chars): every leading character that is in chars goes
RECURSIVE LStrip(_, _)
LStrip(s, chars) ==
    IF s # <<>> /\ Head(s) \in chars THEN LStrip(Tail(s), chars) ELSE s

\* str.startswith
StartsWith(s, prefix) ==
    /\ Len(s) >= Len(prefix)
    /\ SubSeq(s, 1, Len(prefix)) = prefix

\* the longest prefix of s without a character of chars
RECURSIVE TakeUntil(_, _)
TakeUntil(s, chars) ==
    IF s = <<>> \/ Head(s) \in chars THEN <<>>
    ELSE <<Head(s)>> \o TakeUntil(Tail(s), chars)

Whitespace == {" ", "\n", "\t"}

\* str.split(): the words between runs of whitespace
RECURSIVE Split(_)
Split(s) ==
    IF s = <<>> THEN <<>>
    ELSE IF IsSpace(Head(s)) THEN Split(Tail(s))
    ELSE LET word == TakeUntil(s, Whitespace)
         IN  <<word>> \o Split(SubSeq(s, Len(word) + 1, Len(s)))

NoMatch == [command |-> None, values |-> <<>>]

\* re.match(r"^/(rebase|cherry-pick|merge|assign|unassign|label|unlabel|lgtm|help)\s*(.*)",
\* text): the two groups, or NoMatch.  The first alternative that is a prefix wins,
\* \s* takes the whitespace after it and (.*) the rest of that line.
TriggerMatch(text) ==
    IF text = <<>> \/ Head(text) # "/" THEN NoMatch
    ELSE LET rest == Tail(text)
             alts == {k \in 1..Len(CommandPattern) : StartsWith(rest, CommandPattern[k].text)}
         IN  IF alts = {} THEN NoMatch
             ELSE LET k == CHOOSE a \in alts : \A b \in alts : a <= b
                      after == SubSeq(rest, Len(CommandPattern[k].text) + 1, Len(rest))
                  IN  [command |-> CommandPattern[k].name,
                       values |-> TakeUntil(LStrip(after, Whitespace), {"\n"})]

\* "/" + command + " " + the words, one space between two of them
RECURSIVE Join(_, _)
Join(text, words) ==
    IF words = <<>> THEN text
    ELSE Join(text \o <<" ">> \o Head(words), Tail(words))

Slash(text) == <<"/">> \o text


\* ------------------------------------------------------- message templates
\* The replacement fields of each template of messages.py (str.format looks
\* each one up among the keyword arguments of the call).
APPROVED_TEMPLATE == {"pr_sender", "threshold", "valid_votes", "users_table"}
LGTM_BREAKDOWN_TEMPLATE == {"valid_votes", "threshold", "users_table"}
SUCCESS_MERGED == {"merge_method", "comment_sender", "valid_votes", "lgtm_threshold",
                   "users_table", "pr_sender"}
COMMENTS_FETCH_ERROR == {"status_code", "response_text", "pr_num"}
SELF_APPROVAL_ERROR == {"user", "comment_url"}
INSUFFICIENT_PERMISSIONS == {"user", "permission", "required_permissions"}
NOT_ENOUGH_LGTM == {"valid_votes", "threshold"}
MERGE_FAILED == {"pr_num", "status_code", "error_text"}
CHERRY_PICK_ERROR == {"source_pr", "target_branch", "status_code", "error_text"}
CHERRY_PICK_SUCCESS == {"source_pr", "target_branch", "user", "commit_sha"}
\* {self.pr_num} is the field "self" with an attribute lookup
CHERRY_PICK_CONFLICT == {"self", "target_branch", "current_commit", "total_commits",
                         "commit_sha"}
CHECKS_NOT_PASSED == {"status_table"}

\* str.format(**kwargs): a field that is no keyword argument raises KeyError
FormatOk(template, kwargs) == template \subseteq kwargs

\* ---------------------------------------------------------------- the state
VARIABLES
    api,                  \* the client behind PRHandler.api: "GitHubAPI" or "MagicMock"
    trigger_comment,      \* args.trigger_comment
    command,              \* the command main() parsed from the trigger comment
    values,               \* main(): values, the arguments of the command
    lgtm_threshold,       \* PRHandler.lgtm_threshold
    merge_method,         \* PRHandler.merge_method
    pc,                   \* where the invocation is
    pr_status,            \* PRHandler._pr_status: None or the cached response
    permission,           \* merge_pr: permission, the comment sender's
    all_checks_passed,    \* merge_pr: all_checks_passed
    failed_checks,        \* merge_pr: failed_checks
    comments,             \* vote collection: comments
    lgtm_users,           \* vote collection: lgtm_users, a dict in insertion order
    idx,                  \* vote collection: position of the second loop in lgtm_users
    valid_votes,          \* vote collection: valid_votes
    response,             \* the status code of the handler's last write (main: of response)
    label,                \* unlabel: the position of the loop in labels
    cherry_pick_branches, \* merge_pr: the target branches still to be picked
    target_branch,        \* _perform_cherry_pick: target_branch
    commits,              \* _perform_cherry_pick: commits
    i,                    \* _perform_cherry_pick: position in commits
    current_sha,          \* _perform_cherry_pick: current_sha
    base_sha,             \* _perform_cherry_pick: base_sha
    error_text,           \* _perform_cherry_pick: the step a CHERRY_PICK_ERROR names
    calls,                \* every remote request issued so far, in order
    answer,               \* what the remote side answered to the latest request
    exit_code,            \* the exit code of the process, -1 while it runs
    ret,                  \* what the command handler returned
    raised                \* the exception that ended the process, if any

cfgVars == <<api, trigger_comment, command, values, lgtm_threshold, merge_method>>
voteVars == <<comments, lgtm_users, idx, valid_votes>>
cpVars == <<cherry_pick_branches, target_branch, commits, i, current_sha, base_sha, error_text>>
mergeVars == <<permission, all_checks_passed, failed_checks>>
locals == <<pr_status, mergeVars, voteVars, response, label, cpVars>>
endVars == <<exit_code, ret, raised>>
vars == <<cfgVars, pc, locals, calls, answer, endVars>>

\* self._pr_status before the first fetch
NoResponse == [status_code |-> 0, state |-> ""]

SeqsUpTo(S, n) == UNION {[1..k -> S] : k \in 0..n}

\* trigger comments that main()'s pattern does not take as they read
OddTriggerComments ==
    {<<>>,
     Tail(Str_lgtm),
     Str_LGTM,
     <<"/", "i", "n", "v", "a", "l", "i", "d", "c", "m", "d">>,
     <<" ">> \o Slash(Str_help),
     <<"\n">> \o Slash(Str_help),
     <<"n", "\\", "n">> \o Slash(Str_help),
     Slash(Str_help) \o <<"m", "e">>,
     Slash(Str_label) \o <<" ">> \o Str_bug \o <<"\n">> \o Str_wip,
     Slash(Str_unassign) \o <<"\t">> \o Str_at_u1 \o <<" ", " ">> \o Str_u2}

\* --trigger-comment: a command and up to MaxValues words, or an odd text
TriggerComments ==
    {Slash(Str_merge), Str_lgtm, Slash(Str_rebase), Slash(Str_help)}
    \cup {Join(Str_cherry_pick, ws) : ws \in SeqsUpTo({Str_b1, Str_b2}, MaxValues)}
    \cup {Join(Slash(c), ws) : c \in {Str_assign, Str_unassign},
                               ws \in SeqsUpTo({Str_at_u1, Str_u2}, MaxValues)}
    \cup {Join(Slash(c), ws) : c \in {Str_label, Str_unlabel},
                               ws \in SeqsUpTo({Str_bug, Str_wip}, MaxValues)}
    \cup OddTriggerComments

Init ==
    /\ api \in {"GitHubAPI", "MagicMock"}
    /\ trigger_comment \in TriggerComments
    /\ command = None
    /\ values = <<>>
    /\ lgtm_threshold \in 1..MaxThreshold
    /\ merge_method \in MergeMethods
    /\ pc = "main"
    /\ pr_status = NoResponse
    /\ permission = None
    /\ all_checks_passed = FALSE
    /\ failed_checks = <<>>
    /\ comments = <<>>
    /\ lgtm_users = <<>>
    /\ idx = 0
    /\ valid_votes = 0
    /\ response = 0
    /\ label = 1
    /\ cherry_pick_branches = {}
    /\ target_branch = <<>>
    /\ commits = <<>>
    /\ i = 0
    /\ current_sha = None
    /\ base_sha = None
    /\ error_text = ""
    /\ calls = <<>>
    /\ answer = NoResponse
    /\ exit_code = -1
    /\ ret = "none"
    /\ raised = "none"

\* ------------------------------------------------------------ remote client
\* GitHubAPI._make_request: urlopen raises HTTPError for a status outside 2xx,
\* and the client re-raises it as BoussoleError.
MakeRequest(status_code) ==
    IF status_code >= 200 /\ status_code < 300 THEN "response" ELSE "BoussoleError"

\* The unit tests replace get/post/put/delete by MagicMock: every status comes back
\* as a response.
MockRequest(status_code) == "response"

ApiRequest(status_code) ==
    IF api = "GitHubAPI" THEN MakeRequest(status_code) ELSE MockRequest(status_code)

Call(method, endpoint, arg, data) ==
    [method |-> method, endpoint |-> endpoint, arg |-> arg, data |-> data]

\* sys.exit(code)
SysExit(code) ==
    /\ pc' = "done"
    /\ exit_code' = code
    /\ UNCHANGED <<ret, raised>>

\* an exception nobody catches: traceback, exit code 1
Uncaught(exc) ==
    /\ pc' = "done"
    /\ exit_code' = 1
    /\ raised' = exc
    /\ UNCHANGED ret

\* the handler returns value v to main(), whose response stays None: main() returns
HandlerReturns(v) ==
    /\ pc' = "done"
    /\ ret' = v
    /\ exit_code' = 0
    /\ UNCHANGED raised

Goto(step) ==
    /\ pc' = step
    /\ UNCHANGED endVars

\* one request through self.api: it is issued, then either the client raises or
\* the handler goes on with Then
Request(call, r, Then) ==
    /\ calls' = Append(calls, call)
    /\ answer' = r
    /\ UNCHANGED cfgVars
    /\ IF ApiRequest(r.status_code) = "BoussoleError"
       THEN Uncaught("BoussoleError") /\ UNCHANGED locals
       ELSE Then

\* PRHandler._post_comment
CommentStatuses == {201, 403}

PostComment(template, data, Then) ==
    \E st \in CommentStatuses :
        Request(Call("POST", "issues/{pr_num}/comments", template, data),
                [status_code |-> st], Then)

\* ----------------------------------------------------------- main: PR status
PrStatusAnswers ==
    {[status_code |-> 200, state |-> "open"],
     [status_code |-> 200, state |-> "closed"],
     [status_code |-> 404, state |-> ""]}

\* main(): the handler the command is dispatched to
FirstStep(cmd) ==
    CASE cmd = "merge" -> "merge_pr"
      [] cmd = "lgtm" -> "lgtm"
      [] cmd = "cherry-pick" -> "cherry_pick"
      [] cmd \in {"assign", "unassign"} -> "assign_unassign"
      [] cmd = "label" -> "label"
      [] cmd = "unlabel" -> "unlabel"
      [] cmd = "rebase" -> "rebase"
      [] cmd = "help" -> "help"

\* main(): the command and its values out of the trigger comment, or sys.exit(1)
Main ==
    /\ pc = "main"
    /\ LET match == TriggerMatch(LStrip(trigger_comment, {"\\", "n"}))
       IN  IF match = NoMatch
           THEN SysExit(1) /\ UNCHANGED <<command, values>>
           ELSE /\ command' = match.command
                /\ values' = Split(match.values)
                /\ Goto("check_status")
    /\ UNCHANGED <<api, trigger_comment, lgtm_threshold, merge_method, locals, calls, answer>>

\* (mutant) the cached status is never found
HasPrStatus_Never(status) == FALSE

\* _get_pr_status: if self._pr_status
HasPrStatus(status) == status # NoResponse

\* _get_pr_status without a cached status: the fetch, kept in self._pr_status; the
\* caller then goes on from where it is
GetPrStatus ==
    \E r \in PrStatusAnswers :
        Request(Call("GET", "pulls/{pr_num}", "", ""), r,
            /\ pr_status' = r
            /\ UNCHANGED <<label, mergeVars, voteVars, response, cpVars>>
            /\ Goto(pc))

\* (mutant) the state of the PR is not looked at
StateIs_Any(r, status) == TRUE

\* check_status: pr_status.json().get("state") == status
StateIs(r, status) == r.state = status

\* main(): check_status(pr_num, "open"), through _get_pr_status, then the dispatch
CheckStatus ==
    /\ pc = "check_status"
    /\ \E r \in PrStatusAnswers :
        Request(Call("GET", "pulls/{pr_num}", "", ""), r,
            /\ pr_status' = r
            /\ UNCHANGED <<label, mergeVars, voteVars, response, cpVars>>
            /\ IF r.status_code # 200
               THEN SysExit(1)
               ELSE IF ~StateIs(r, "open")
                    THEN SysExit(1)
                    ELSE Goto(FirstStep(command)))

\* PRHandler.check_response
CheckResponse(status_code) == status_code >= 200 /\ status_code < 300

\* the handler returns its response to main(): check_response, or sys.exit(1)
ReturnsResponse(status_code) ==
    /\ pc' = "done"
    /\ ret' = "response"
    /\ exit_code' = IF CheckResponse(status_code) THEN 0 ELSE 1
    /\ UNCHANGED raised

\* ------------------------------------------- assign, unassign, label, unlabel
REVIEW_REQUESTED == {"greeting", "submitter"}

\* (mutant) the usernames are submitted as they were written
Reviewers_Keep(users) == users

\* assign_unassign: users = [user.lstrip("@") for user in users]
Reviewers(users) == [k \in 1..Len(users) |-> LStrip(users[k], {"@"})]

ReviewersStatuses == {201, 202, 422}

\* assign_unassign: POST or DELETE of the reviewers
AssignUnassign ==
    /\ pc = "assign_unassign"
    /\ \E st \in ReviewersStatuses :
        Request(Call(IF command = "assign" THEN "POST" ELSE "DELETE",
                     "pulls/{pr_num}/requested_reviewers", "reviewers", Reviewers(values)),
                [status_code |-> st],
            /\ response' = st
            /\ UNCHANGED <<label, pr_status, mergeVars, voteVars, cpVars>>
            /\ IF st \in {200, 201, 204}
               THEN Goto("assign_comment")
               ELSE ReturnsResponse(st))

\* assign_unassign: the reviewers were taken: the message, then return response
AssignComment ==
    /\ pc = "assign_comment"
    /\ IF command = "assign" => FormatOk(REVIEW_REQUESTED, {"greeting", "submitter"})
       THEN PostComment(IF command = "assign" THEN "REVIEW_REQUESTED"
                                             ELSE "Removed from the review list",
                        Reviewers(values),
                ReturnsResponse(response) /\ UNCHANGED locals)
       ELSE Uncaught("KeyError") /\ UNCHANGED <<cfgVars, locals, calls, answer>>

\* PRHandler.label: the comment first
Label ==
    /\ pc = "label"
    /\ PostComment("Added labels", values, Goto("label_post") /\ UNCHANGED locals)

\* PRHandler.label: then the labels, and the response goes to main()
LabelPost ==
    /\ pc = "label_post"
    /\ \E st \in {200, 404} :
        Request(Call("POST", "issues/{pr_num}/labels", "labels", values), [status_code |-> st],
            /\ response' = st
            /\ UNCHANGED <<label, pr_status, mergeVars, voteVars, cpVars>>
            /\ ReturnsResponse(st))

\* PRHandler.unlabel: one turn of the loop, whose answer nobody reads
Unlabel ==
    /\ pc = "unlabel"
    /\ label <= Len(values)
    /\ \E st \in {200, 404} :
        Request(Call("DELETE", "issues/{pr_num}/labels/{label}", values[label], ""),
                [status_code |-> st],
            /\ label' = label + 1
            /\ UNCHANGED <<pr_status, mergeVars, voteVars, response, cpVars>>
            /\ Goto("unlabel"))

\* PRHandler.unlabel: after the loop the comment, whose response goes to main()
UnlabelComment ==
    /\ pc = "unlabel"
    /\ label > Len(values)
    /\ \E st \in CommentStatuses :
        Request(Call("POST", "issues/{pr_num}/comments", "Removed labels", values),
                [status_code |-> st],
            /\ response' = st
            /\ UNCHANGED <<label, pr_status, mergeVars, voteVars, cpVars>>
            /\ ReturnsResponse(st))

\* ---------------------------------------------------------------- rebase, help
\* PRHandler.rebase: the comment first
Rebase ==
    /\ pc = "rebase"
    /\ PostComment("Rebased the PR branch", "", Goto("rebase_put") /\ UNCHANGED locals)

\* PRHandler.rebase: then the update of the branch, and the response goes to main()
RebasePut ==
    /\ pc = "rebase_put"
    /\ \E st \in {202, 422} :
        Request(Call("PUT", "pulls/{pr_num}/update-branch", "", ""), [status_code |-> st],
            /\ response' = st
            /\ UNCHANGED <<label, pr_status, mergeVars, voteVars, cpVars>>
            /\ ReturnsResponse(st))

\* main(): help: response = pr_handler._post_comment(HELP_TEXT.strip())
Help ==
    /\ pc = "help"
    /\ \E st \in CommentStatuses :
        Request(Call("POST", "issues/{pr_num}/comments", "HELP_TEXT", ""), [status_code |-> st],
            /\ response' = st
            /\ UNCHANGED <<label, pr_status, mergeVars, voteVars, cpVars>>
            /\ ReturnsResponse(st))

\* -------------------------------------------------------- cherry_pick command
\* (mutant) only a missing argument is refused
WrongArgumentCount_Empty(vals) == Len(vals) = 0

\* cherry_pick: if len(values) != 1
WrongArgumentCount(vals) == Len(vals) # 1

\* PRHandler.cherry_pick: one argument, or sys.exit(1); a comment, nothing else
CherryPick ==
    /\ pc = "cherry_pick"
    /\ IF WrongArgumentCount(values)
       THEN SysExit(1) /\ UNCHANGED <<cfgVars, locals, calls, answer>>
       ELSE PostComment("We will cherry-pick this PR", values[1],
                HandlerReturns(None) /\ UNCHANGED locals)

\* -------------------------------------------------------- permission lookup
PermissionAnswers ==
    {[status_code |-> 200, permission |-> p] : p \in {"admin", "write", "read", ""}}
    \cup {[status_code |-> 404, permission |-> ""], [status_code |-> 500, permission |-> ""]}

\* (mutant) every collaborator counts, whatever the permission
CheckMembership_AnyPermission(r) ==
    IF r.status_code # 200 \/ r.permission = ""
    THEN [permission |-> None, is_valid |-> FALSE]
    ELSE [permission |-> r.permission, is_valid |-> TRUE]

\* PRHandler._check_membership, after the GET: (permission, is_valid)
CheckMembership(r) ==
    IF r.status_code = 404 THEN [permission |-> None, is_valid |-> FALSE]
    ELSE IF r.status_code # 200 THEN [permission |-> None, is_valid |-> FALSE]
    ELSE IF r.permission = "" THEN [permission |-> None, is_valid |-> FALSE]
    ELSE [permission |-> r.permission, is_valid |-> r.permission \in lgtm_permissions]

PermissionCall(user) == Call("GET", "collaborators/{user}/permission", user, "")

\* ------------------------------------------------------------- merge_pr gates
\* merge_pr: the permission of the comment sender
MergePermission ==
    /\ pc = "merge_pr"
    /\ \E r \in PermissionAnswers :
        Request(PermissionCall(comment_sender), r,
            /\ permission' = CheckMembership(r).permission
            /\ UNCHANGED <<label, pr_status, all_checks_passed, failed_checks, voteVars,
                           response, cpVars>>
            /\ IF CheckMembership(r).is_valid
               THEN Goto("merge_checks")
               ELSE Goto("merge_denied"))

\* merge_pr: the sender may not merge: notify, sys.exit(1)
MergeDenied ==
    /\ pc = "merge_denied"
    /\ IF FormatOk(INSUFFICIENT_PERMISSIONS, {"user", "permission", "required_permissions"})
       THEN PostComment("INSUFFICIENT_PERMISSIONS", permission,
                SysExit(1) /\ UNCHANGED locals)
       ELSE Uncaught("KeyError") /\ UNCHANGED <<cfgVars, locals, calls, answer>>

CheckRuns ==
    {[name |-> Str_ci, status |-> "completed", conclusion |-> "success"],
     [name |-> Str_ci, status |-> "completed", conclusion |-> "skipped"],
     [name |-> Str_ci, status |-> "completed", conclusion |-> "failure"],
     [name |-> Str_ci, status |-> "in_progress", conclusion |-> None],
     [name |-> Str_ci_boussole, status |-> "in_progress", conclusion |-> None]}

CheckRunsAnswers ==
    {[status_code |-> 200, check_runs |-> cs] : cs \in SeqsUpTo(CheckRuns, MaxChecks)}
    \cup {[status_code |-> 500, check_runs |-> <<>>]}

IsFailedCheck(check) ==
    check.status = "completed" /\ check.conclusion \notin {"success", "skipped"}

\* (mutant) a check that has not completed does not count
IsPendingCheck_Never(check) == FALSE

IsPendingCheck(check) ==
    check.status # "completed" /\ ~EndsWith(check.name, Str_boussole_suffix)

\* (mutant) a failed fetch of the check runs counts as no check failing
CheckRunsStatus_FailOpen(r) ==
    LET failed == SelectSeq(r.check_runs, IsFailedCheck)
        pending == SelectSeq(r.check_runs, IsPendingCheck)
    IN  [all_success |-> (failed \o pending = <<>>), failed |-> failed \o pending]

\* PRHandler._check_runs_status, after the GET: (all_success, failed + pending)
CheckRunsStatus(r) ==
    IF r.status_code # 200 THEN [all_success |-> FALSE, failed |-> <<>>]
    ELSE LET failed == SelectSeq(r.check_runs, IsFailedCheck)
             pending == SelectSeq(r.check_runs, IsPendingCheck)
         IN  [all_success |-> (failed \o pending = <<>>), failed |-> failed \o pending]

\* merge_pr: the check runs of the head commit (the PR status is the cached one)
MergeChecks ==
    /\ pc = "merge_checks"
    /\ IF ~HasPrStatus(pr_status)
       THEN GetPrStatus
       ELSE \E r \in CheckRunsAnswers :
        Request(Call("GET", "commits/{sha}/check-runs", "", ""), r,
            /\ all_checks_passed' = CheckRunsStatus(r).all_success
            /\ failed_checks' = CheckRunsStatus(r).failed
            /\ UNCHANGED <<label, pr_status, permission, voteVars, response, cpVars>>
            /\ IF CheckRunsStatus(r).all_success
               THEN Goto("votes")
               ELSE Goto("merge_checks_failed"))

\* merge_pr: some check failed or is pending: notify, sys.exit(1)
MergeChecksFailed ==
    /\ pc = "merge_checks_failed"
    /\ IF FormatOk(CHECKS_NOT_PASSED, {"status_table"})
       THEN PostComment("CHECKS_NOT_PASSED", failed_checks,
                SysExit(1) /\ UNCHANGED locals)
       ELSE Uncaught("KeyError") /\ UNCHANGED <<cfgVars, locals, calls, answer>>


\* ------------------------------------------------------------ vote collection
\* a comment of the PR: the author is read from the /lgtm comments alone
Comments ==
    [login : Logins, body : {Str_lgtm, Str_LGTM, Str_lgtmx}]
    \cup [login : {comment_sender}, body : {Str_cp_b1, Str_CP_b2}]

CommentsAnswers ==
    {[status_code |-> 200, comments |-> cs] : cs \in SeqsUpTo(Comments, MaxComments)}
    \cup {[status_code |-> 500, comments |-> <<>>]}

CommentsCall == Call("GET", "issues/{pr_num}/comments", "", "")

HasKey(d, user) == \E k \in 1..Len(d) : d[k].login = user

\* (mutant) a list instead of a dict: every vote is appended
DictSet_Append(d, user, value) == Append(d, [login |-> user, permission |-> value])

\* d[user] = value on a dict: a new key goes last, a known key keeps its place
DictSet(d, user, value) ==
    IF HasKey(d, user)
    THEN [k \in 1..Len(d) |-> IF d[k].login = user
                              THEN [login |-> user, permission |-> value]
                              ELSE d[k]]
    ELSE Append(d, [login |-> user, permission |-> value])

\* str.lower() of a login
LowerLogin(user) == IF user = "Test_User" THEN "test_user" ELSE user

\* (mutant) the logins are compared without their case
IsSelf_IgnoreCase(user) == LowerLogin(user) = LowerLogin(pr_sender)

\* vote collection: if user == self.pr_sender
IsSelf(user) == user = pr_sender

\* The first loop of vote collection: the candidates in lgtm_users, or the
\* self-approval that stops the loop.
RECURSIVE ScanVotes(_, _, _)
ScanVotes(cs, k, acc) ==
    IF k > Len(cs) THEN [self_approval |-> FALSE, users |-> acc]
    ELSE IF LgtmMatch(cs[k].body)
         THEN IF IsSelf(cs[k].login)
              THEN [self_approval |-> TRUE, users |-> acc]
              ELSE ScanVotes(cs, k + 1, DictSet(acc, cs[k].login, None))
         ELSE ScanVotes(cs, k + 1, acc)

\* (mutant) the own /lgtm of the PR sender is skipped, not fatal
RECURSIVE ScanVotes_SkipSelf(_, _, _)
ScanVotes_SkipSelf(cs, k, acc) ==
    IF k > Len(cs) THEN [self_approval |-> FALSE, users |-> acc]
    ELSE IF LgtmMatch(cs[k].body) /\ cs[k].login # pr_sender
         THEN ScanVotes_SkipSelf(cs, k + 1, DictSet(acc, cs[k].login, None))
         ELSE ScanVotes_SkipSelf(cs, k + 1, acc)

CollectVotes_SkipSelf(cs) == ScanVotes_SkipSelf(cs, 1, <<>>)

\* (mutant) the scan stops at the first comment that is no /lgtm
RECURSIVE ScanVotes_Break(_, _, _)
ScanVotes_Break(cs, k, acc) ==
    IF k > Len(cs) THEN [self_approval |-> FALSE, users |-> acc]
    ELSE IF LgtmMatch(cs[k].body)
         THEN IF cs[k].login = pr_sender
              THEN [self_approval |-> TRUE, users |-> acc]
              ELSE ScanVotes_Break(cs, k + 1, DictSet(acc, cs[k].login, None))
         ELSE [self_approval |-> FALSE, users |-> acc]

CollectVotes_Break(cs) == ScanVotes_Break(cs, 1, <<>>)

CollectVotes(cs) == ScanVotes(cs, 1, <<>>)

\* (mutant) the status of the comments fetch is not looked at
FetchFailed_Never(status_code) == FALSE

\* vote collection: if response.status_code != 200
FetchFailed(status_code) == status_code # 200

\* The comments fetch and the first loop, for the vote collection that starts at
\* `at` and goes on with the lookups at `perm`, the tally at `tally`.
FetchVotes(at, self, perm, tally) ==
    /\ pc = at
    /\ \E r \in CommentsAnswers :
        Request(CommentsCall, [status_code |-> r.status_code],
            /\ UNCHANGED <<label, pr_status, mergeVars, response, cpVars>>
            /\ IF FetchFailed(r.status_code)
               THEN /\ IF FormatOk(COMMENTS_FETCH_ERROR, {"status_code", "response_text", "pr_num"})
                       THEN SysExit(1)
                       ELSE Uncaught("KeyError")
                    /\ UNCHANGED voteVars
               ELSE LET scan == CollectVotes(r.comments)
                    IN  /\ comments' = r.comments
                        /\ lgtm_users' = scan.users
                        /\ idx' = 1
                        /\ valid_votes' = 0
                        /\ IF scan.self_approval
                           THEN Goto(self)
                           ELSE IF scan.users = <<>>
                                THEN Goto(tally)
                                ELSE Goto(perm))

\* The self-approval found by the first loop: notify, sys.exit(1)
SelfApproval(at) ==
    /\ pc = at
    /\ IF FormatOk(SELF_APPROVAL_ERROR, {"user", "comment_url"})
       THEN PostComment("SELF_APPROVAL_ERROR", pr_sender, SysExit(1) /\ UNCHANGED locals)
       ELSE Uncaught("KeyError") /\ UNCHANGED <<cfgVars, locals, calls, answer>>

\* One turn of the second loop: the permission of lgtm_users' idx-th key
ValidateVote(at, tally) ==
    /\ pc = at
    /\ idx <= Len(lgtm_users)
    /\ \E r \in PermissionAnswers :
        Request(PermissionCall(lgtm_users[idx].login), r,
            /\ lgtm_users' = DictSet(lgtm_users, lgtm_users[idx].login,
                                     CheckMembership(r).permission)
            /\ valid_votes' = IF CheckMembership(r).is_valid
                              THEN valid_votes + 1
                              ELSE valid_votes
            /\ idx' = idx + 1
            /\ UNCHANGED <<label, pr_status, mergeVars, comments, response, cpVars>>
            /\ IF idx = Len(lgtm_users) THEN Goto(tally) ELSE Goto(at))

\* PRHandler._fetch_and_validate_lgtm_votes, called by merge_pr
VotesFetch == FetchVotes("votes", "votes_self", "votes_perm", "merge_tally")
VotesSelfApproval == SelfApproval("votes_self")
VotesPermission == ValidateVote("votes_perm", "merge_tally")

\* PRHandler.lgtm carries its own copy of the vote collection.
\* lgtm's first loop: the candidates in lgtm_users, or the self-approval that
\* stops the loop
RECURSIVE LgtmScanVotes(_, _, _)
LgtmScanVotes(cs, k, acc) ==
    IF k > Len(cs) THEN [self_approval |-> FALSE, users |-> acc]
    ELSE IF LgtmMatch(cs[k].body)
         THEN IF IsSelf(cs[k].login)
              THEN [self_approval |-> TRUE, users |-> acc]
              ELSE LgtmScanVotes(cs, k + 1, DictSet(acc, cs[k].login, None))
         ELSE LgtmScanVotes(cs, k + 1, acc)

\* (mutant) lgtm's copy skips the own /lgtm of the PR sender
LgtmCollectVotes_SkipSelf(cs) == ScanVotes_SkipSelf(cs, 1, <<>>)

LgtmCollectVotes(cs) == LgtmScanVotes(cs, 1, <<>>)

\* lgtm: the comments fetch and the first loop
LgtmFetch ==
    /\ pc = "lgtm"
    /\ \E r \in CommentsAnswers :
        Request(CommentsCall, [status_code |-> r.status_code],
            /\ UNCHANGED <<label, pr_status, mergeVars, response, cpVars>>
            /\ IF FetchFailed(r.status_code)
               THEN /\ IF FormatOk(COMMENTS_FETCH_ERROR, {"status_code", "response_text", "pr_num"})
                       THEN SysExit(1)
                       ELSE Uncaught("KeyError")
                    /\ UNCHANGED voteVars
               ELSE LET scan == LgtmCollectVotes(r.comments)
                    IN  /\ comments' = r.comments
                        /\ lgtm_users' = scan.users
                        /\ idx' = 1
                        /\ valid_votes' = 0
                        /\ IF scan.self_approval
                           THEN Goto("lgtm_self")
                           ELSE IF scan.users = <<>>
                                THEN Goto("lgtm_tally")
                                ELSE Goto("lgtm_perm"))

\* lgtm: the self-approval found by the first loop: notify, sys.exit(1)
LgtmSelfApproval ==
    /\ pc = "lgtm_self"
    /\ IF FormatOk(SELF_APPROVAL_ERROR, {"user", "comment_url"})
       THEN PostComment("SELF_APPROVAL_ERROR", pr_sender, SysExit(1) /\ UNCHANGED locals)
       ELSE Uncaught("KeyError") /\ UNCHANGED <<cfgVars, locals, calls, answer>>

\* lgtm: one turn of the second loop: the permission of lgtm_users' idx-th key
LgtmPermission ==
    /\ pc = "lgtm_perm"
    /\ idx <= Len(lgtm_users)
    /\ \E r \in PermissionAnswers :
        Request(PermissionCall(lgtm_users[idx].login), r,
            /\ lgtm_users' = DictSet(lgtm_users, lgtm_users[idx].login,
                                     CheckMembership(r).permission)
            /\ valid_votes' = IF CheckMembership(r).is_valid
                              THEN valid_votes + 1
                              ELSE valid_votes
            /\ idx' = idx + 1
            /\ UNCHANGED <<label, pr_status, mergeVars, comments, response, cpVars>>
            /\ IF idx = Len(lgtm_users) THEN Goto("lgtm_tally") ELSE Goto("lgtm_perm"))

\* ------------------------------------------------------------------ lgtm ends
lgtm_review_event == "APPROVE"

\* lgtm: the threshold is met: the review
LgtmApprove ==
    /\ pc = "lgtm_tally"
    /\ valid_votes >= lgtm_threshold
    /\ IF FormatOk(APPROVED_TEMPLATE, {"threshold", "valid_votes", "users_table"})
       THEN \E st \in {200, 422} :
                Request(Call("POST", "pulls/{pr_num}/reviews", lgtm_review_event, valid_votes),
                        [status_code |-> st], HandlerReturns("valid_votes") /\ UNCHANGED locals)
       ELSE Uncaught("KeyError") /\ UNCHANGED <<cfgVars, locals, calls, answer>>

\* lgtm: the threshold is not met: _post_lgtm_breakdown, sys.exit(0)
LgtmBreakdown ==
    /\ pc = "lgtm_tally"
    /\ valid_votes < lgtm_threshold
    /\ IF FormatOk(NOT_ENOUGH_LGTM, {"valid_votes", "threshold"})
          /\ FormatOk(LGTM_BREAKDOWN_TEMPLATE, {"valid_votes", "threshold", "users_table"})
       THEN PostComment("LGTM_BREAKDOWN_TEMPLATE", lgtm_users, SysExit(0) /\ UNCHANGED locals)
       ELSE Uncaught("KeyError") /\ UNCHANGED <<cfgVars, locals, calls, answer>>


\* ------------------------------------------------------ merge_pr: the merge
MergeData ==
    [merge_method |-> merge_method,
     commit_title |-> <<"Merged PR #", "{pr_num}">>,
     commit_message |-> <<"PR #", "{pr_num}", " merged by ", pr_sender, " with ",
                          valid_votes, " LGTM votes.">>]

\* (mutant) the answer to the merge request is not looked at
Merged_Always(status_code) == TRUE

\* merge_pr: response and response.status_code == 200
Merged(status_code) == status_code = 200

\* merge_pr: the threshold is met: PUT pulls/{pr_num}/merge
MergePut ==
    /\ pc = "merge_tally"
    /\ valid_votes >= lgtm_threshold
    /\ \E st \in {200, 405} :
        Request(Call("PUT", "pulls/{pr_num}/merge", merge_method, MergeData),
                [status_code |-> st],
            /\ response' = st
            /\ comments' = <<>>
            /\ UNCHANGED <<label, pr_status, mergeVars, lgtm_users, idx, valid_votes, cpVars>>
            /\ IF Merged(st) THEN Goto("merge_comments") ELSE Goto("merge_failed"))

\* merge_pr: the threshold is not met: notify, return False
MergeNotEnough ==
    /\ pc = "merge_tally"
    /\ valid_votes < lgtm_threshold
    /\ IF FormatOk(NOT_ENOUGH_LGTM, {"valid_votes", "threshold"})
       THEN PostComment("NOT_ENOUGH_LGTM", valid_votes,
                /\ HandlerReturns("False")
                /\ comments' = <<>>
                /\ UNCHANGED <<label, pr_status, mergeVars, lgtm_users, idx, valid_votes,
                               response, cpVars>>)
       ELSE Uncaught("KeyError") /\ UNCHANGED <<cfgVars, locals, calls, answer>>

\* merge_pr: the merge request was refused: notify, return False
MergeFailed ==
    /\ pc = "merge_failed"
    /\ IF FormatOk(MERGE_FAILED, {"pr_num", "status_code", "error_text"})
       THEN PostComment("MERGE_FAILED", response, HandlerReturns("False") /\ UNCHANGED locals)
       ELSE Uncaught("KeyError") /\ UNCHANGED <<cfgVars, locals, calls, answer>>

\* the set of group(1) of the /cherry-pick directives among the comments
CherryPickBranches(cs) ==
    {CherryPickMatch(cs[k].body)[1] :
        k \in {j \in 1..Len(cs) : CherryPickMatch(cs[j].body) # <<>>}}

\* group(1) of each /cherry-pick directive, in the order of the comments
Directives(cs) ==
    LET matched == SelectSeq(cs, LAMBDA c : CherryPickMatch(c.body) # <<>>)
    IN  [k \in 1..Len(matched) |-> CherryPickMatch(matched[k].body)[1]]

\* the comments of the PR once it is merged: the directives in every spelling
MergedComments ==
    Comments \cup [login : {comment_sender}, body : {Str_CP_b1}]

MergedCommentsAnswers ==
    {[status_code |-> 200, comments |-> cs] : cs \in SeqsUpTo(MergedComments, MaxComments)}
    \cup {[status_code |-> 500, comments |-> <<>>]}

\* merge_pr: merged: the comments again, for the /cherry-pick directives
MergeComments ==
    /\ pc = "merge_comments"
    /\ \E r \in MergedCommentsAnswers :
        Request(CommentsCall,
                [status_code |-> r.status_code, directives |-> Directives(r.comments)],
            /\ UNCHANGED <<label, pr_status, mergeVars, voteVars, response, target_branch,
                           commits, i, current_sha, base_sha, error_text>>
            /\ IF r.status_code # 200
               THEN SysExit(1) /\ UNCHANGED cherry_pick_branches
               ELSE /\ cherry_pick_branches' = CherryPickBranches(r.comments)
                    /\ Goto("merge_cherry_picks"))

\* merge_pr: every cherry-pick returned True: the success message, return True
MergeSuccess ==
    /\ pc = "merge_cherry_picks"
    /\ cherry_pick_branches = {}
    /\ IF FormatOk(SUCCESS_MERGED, {"merge_method", "comment_sender", "valid_votes",
                                    "lgtm_threshold", "users_table"})
       THEN PostComment("SUCCESS_MERGED", valid_votes,
                HandlerReturns("True") /\ UNCHANGED locals)
       ELSE Uncaught("KeyError") /\ UNCHANGED <<cfgVars, locals, calls, answer>>

\* ------------------------------------------------------ _perform_cherry_pick
\* the PR has commits c1..cN, N <= MaxCommits
PrCommits(n) == [k \in 1..n |-> <<"c", k>>]

CommitsAnswers ==
    {[status_code |-> 200, commits |-> PrCommits(n)] : n \in 0..MaxCommits}
    \cup {[status_code |-> 500, commits |-> <<>>]}

\* PRHandler._get_pr_commits, after the GET
GetPrCommits(r) == IF r.status_code # 200 THEN <<>> ELSE r.commits

BranchAnswers ==
    {[status_code |-> 200, sha |-> "tip"],
     [status_code |-> 200, sha |-> None],
     [status_code |-> 404, sha |-> None],
     [status_code |-> 500, sha |-> None]}

\* PRHandler._get_branch_sha, after the GET
GetBranchSha(r) == IF r.status_code # 200 THEN None ELSE r.sha

\* merge_pr takes the next target branch; _perform_cherry_pick fetches the commits
CherryPickCommits ==
    /\ pc = "merge_cherry_picks"
    /\ \E b \in cherry_pick_branches : \E r \in CommitsAnswers :
        Request(Call("GET", "pulls/{pr_num}/commits", b, ""), r,
            /\ cherry_pick_branches' = cherry_pick_branches \ {b}
            /\ target_branch' = b
            /\ commits' = GetPrCommits(r)
            /\ i' = 0
            /\ current_sha' = None
            /\ base_sha' = None
            /\ UNCHANGED <<label, pr_status, mergeVars, voteVars>>
            /\ IF GetPrCommits(r) = <<>>
               THEN /\ response' = 404
                    /\ error_text' = "Could not fetch PR commits"
                    /\ Goto("cp_error")
               ELSE /\ UNCHANGED <<response, error_text>>
                    /\ Goto("cp_branch"))

\* _perform_cherry_pick: does the target branch exist?
CherryPickBranch ==
    /\ pc = "cp_branch"
    /\ \E r \in BranchAnswers :
        Request(Call("GET", "git/refs/heads/{branch}", target_branch, ""), r,
            /\ current_sha' = GetBranchSha(r)
            /\ UNCHANGED <<label, pr_status, mergeVars, voteVars, response,
                           cherry_pick_branches, target_branch, commits, base_sha, error_text>>
            /\ IF GetBranchSha(r) # None
               THEN i' = 1 /\ Goto("cp_apply")
               ELSE UNCHANGED i /\ Goto("cp_base"))

\* pr_info["base"]["ref"] of the cached PR status
base_branch == <<"m", "a", "i", "n">>

\* _perform_cherry_pick: no target branch: the SHA of the PR's base branch
CherryPickBase ==
    /\ pc = "cp_base"
    /\ IF ~HasPrStatus(pr_status)
       THEN GetPrStatus
       ELSE \E r \in BranchAnswers :
        Request(Call("GET", "git/refs/heads/{branch}", base_branch, ""), r,
            /\ base_sha' = GetBranchSha(r)
            /\ UNCHANGED <<label, pr_status, mergeVars, voteVars,
                           cherry_pick_branches, target_branch, commits, i, current_sha>>
            /\ IF GetBranchSha(r) = None
               THEN /\ response' = 404
                    /\ error_text' = "Could not find base branch"
                    /\ Goto("cp_error")
               ELSE /\ UNCHANGED <<response, error_text>>
                    /\ Goto("cp_create"))

\* PRHandler._create_branch, after the POST
CreateBranch(status_code) == status_code = 201

\* _perform_cherry_pick: create the target branch from the base SHA
CherryPickCreate ==
    /\ pc = "cp_create"
    /\ \E st \in {201, 422} :
        Request(Call("POST", "git/refs", target_branch, base_sha), [status_code |-> st],
            /\ UNCHANGED <<label, pr_status, mergeVars, voteVars,
                           cherry_pick_branches, target_branch, commits, base_sha>>
            /\ IF CreateBranch(st)
               THEN /\ current_sha' = base_sha
                    /\ i' = 1
                    /\ UNCHANGED <<response, error_text>>
                    /\ Goto("cp_apply")
               ELSE /\ response' = 422
                    /\ error_text' = "Could not create branch"
                    /\ UNCHANGED <<current_sha, i>>
                    /\ Goto("cp_error"))

\* (mutant) a conflict is taken for an applied commit
MergesOutcome_ConflictApplied(status_code) ==
    IF status_code \in {201, 409} THEN "applied" ELSE "error"

\* (mutant) any answer but a conflict is taken for an applied commit
MergesOutcome_ErrorApplied(status_code) ==
    IF status_code = 409 THEN "conflict" ELSE "applied"

\* _perform_cherry_pick: what the loop does with the answer to POST merges
MergesOutcome(status_code) ==
    IF status_code = 409 THEN "conflict"
    ELSE IF status_code # 201 THEN "error"
    ELSE "applied"

\* (mutant) the loop submits the commit it has just applied once more
NextCommit_Same(k) == k

\* for i, commit in enumerate(commits, 1): the position after position k
NextCommit(k) == k + 1

\* _perform_cherry_pick: one turn of the loop: POST merges for commits[i]
CherryPickApply ==
    /\ pc = "cp_apply"
    /\ i <= Len(commits)
    /\ \E st \in {201, 409, 500} :
        Request(Call("POST", "merges", target_branch,
                     [head |-> commits[i], position |-> i, total |-> Len(commits)]),
                [status_code |-> st],
            /\ UNCHANGED <<label, pr_status, mergeVars, voteVars,
                           cherry_pick_branches, target_branch, commits, base_sha>>
            /\ IF MergesOutcome(st) = "conflict"
               THEN /\ UNCHANGED <<i, current_sha, response, error_text>>
                    /\ Goto("cp_conflict")
               ELSE IF MergesOutcome(st) = "error"
                    THEN /\ response' = st
                         /\ error_text' = "response.text"
                         /\ UNCHANGED <<i, current_sha>>
                         /\ Goto("cp_error")
                    ELSE /\ current_sha' = <<"merged", commits[i]>>
                         /\ i' = NextCommit(i)
                         /\ UNCHANGED <<response, error_text>>
                         /\ IF NextCommit(i) > Len(commits)
                            THEN Goto("cp_success")
                            ELSE Goto("cp_apply"))

\* _handle_merge_conflict, then _perform_cherry_pick and merge_pr return False
CherryPickConflict ==
    /\ pc = "cp_conflict"
    /\ IF FormatOk(CHERRY_PICK_CONFLICT, {"pr_num", "target_branch", "current_commit",
                                          "total_commits", "commit_sha"})
       THEN PostComment("CHERRY_PICK_CONFLICT",
                        [target_branch |-> target_branch, commit_sha |-> commits[i],
                         current_commit |-> i, total_commits |-> Len(commits)],
                HandlerReturns("False") /\ UNCHANGED locals)
       ELSE Uncaught("KeyError") /\ UNCHANGED <<cfgVars, locals, calls, answer>>

\* _perform_cherry_pick: a CHERRY_PICK_ERROR, then it and merge_pr return False
CherryPickError ==
    /\ pc = "cp_error"
    /\ IF FormatOk(CHERRY_PICK_ERROR, {"source_pr", "target_branch", "status_code", "error_text"})
       THEN PostComment("CHERRY_PICK_ERROR",
                        [target_branch |-> target_branch, status_code |-> response,
                         error_text |-> error_text],
                HandlerReturns("False") /\ UNCHANGED locals)
       ELSE Uncaught("KeyError") /\ UNCHANGED <<cfgVars, locals, calls, answer>>

\* _perform_cherry_pick: every commit applied: notify, return True to merge_pr's loop
CherryPickSuccess ==
    /\ pc = "cp_success"
    /\ IF FormatOk(CHERRY_PICK_SUCCESS, {"source_pr", "target_branch", "user", "commit_sha"})
       THEN PostComment("CHERRY_PICK_SUCCESS",
                        [target_branch |-> target_branch, commit_sha |-> current_sha],
                Goto("merge_cherry_picks") /\ UNCHANGED locals)
       ELSE Uncaught("KeyError") /\ UNCHANGED <<cfgVars, locals, calls, answer>>

\* ------------------------------------------------------------ specification
Next ==
    \/ Main
    \/ CheckStatus
    \/ AssignUnassign
    \/ AssignComment
    \/ Label
    \/ LabelPost
    \/ Unlabel
    \/ UnlabelComment
    \/ Rebase
    \/ RebasePut
    \/ Help
    \/ CherryPick
    \/ MergePermission
    \/ MergeDenied
    \/ MergeChecks
    \/ MergeChecksFailed
    \/ VotesFetch
    \/ VotesSelfApproval
    \/ VotesPermission
    \/ MergePut
    \/ MergeNotEnough
    \/ MergeFailed
    \/ MergeComments
    \/ MergeSuccess
    \/ CherryPickCommits
    \/ CherryPickBranch
    \/ CherryPickBase
    \/ CherryPickCreate
    \/ CherryPickApply
    \/ CherryPickConflict
    \/ CherryPickError
    \/ CherryPickSuccess
    \/ LgtmFetch
    \/ LgtmSelfApproval
    \/ LgtmPermission
    \/ LgtmApprove
    \/ LgtmBreakdown

Spec == Init /\ [][Next]_vars


\* ====================================================================== claims
\* What the formulas below read from the list of requests.
CallsTo(method, endpoint) ==
    {k \in 1..Len(calls) : calls[k].method = method /\ calls[k].endpoint = endpoint}

MergePuts == CallsTo("PUT", "pulls/{pr_num}/merge")
ReviewPosts == CallsTo("POST", "pulls/{pr_num}/reviews")
CommentsGets == CallsTo("GET", "issues/{pr_num}/comments")
CheckRunsGets == CallsTo("GET", "commits/{sha}/check-runs")
PermissionGets == CallsTo("GET", "collaborators/{user}/permission")

Notified(k, template) ==
    /\ k \in CallsTo("POST", "issues/{pr_num}/comments")
    /\ calls[k].arg = template

LastCallIs(method, endpoint) ==
    /\ calls # <<>>
    /\ calls[Len(calls)].method = method
    /\ calls[Len(calls)].endpoint = endpoint

\* the claims' own reading of the inputs
RequiredPermissions == {"admin", "write"}

IsLgtmComment(body) ==
    /\ Len(body) >= 5
    /\ body[1] = "/"
    /\ body[2] \in {"l", "L"} /\ body[3] \in {"g", "G"}
    /\ body[4] \in {"t", "T"} /\ body[5] \in {"m", "M"}
    /\ (Len(body) > 5 => body[6] \in {" ", "\n", "\t", "!", ".", ","})

LgtmAuthors == {comments[k].login : k \in {j \in 1..Len(comments) : IsLgtmComment(comments[j].body)}}

SelfApproved == pr_sender \in LgtmAuthors

IsBoussoleCheck(name) ==
    \E n \in 1..Len(name) : SubSeq(name, n, Len(name)) =
        <<" ", "/", " ", "b", "o", "u", "s", "s", "o", "l", "e">>

Offending(check) ==
    \/ check.status = "completed" /\ check.conclusion # "success" /\ check.conclusion # "skipped"
    \/ check.status # "completed" /\ ~IsBoussoleCheck(check.name)

Range(seq) == {seq[k] : k \in 1..Len(seq)}

\* the permission vote collection recorded for a login
ResolvedPermission(user) ==
    IF \E k \in 1..Len(lgtm_users) : lgtm_users[k].login = user
    THEN lgtm_users[CHOOSE k \in 1..Len(lgtm_users) : lgtm_users[k].login = user].permission
    ELSE "unresolved"

\* vote collection ran to its end: comments fetched, no self-approval, every lookup done
VotesCollected == idx = Len(lgtm_users) + 1 /\ ~SelfApproved

GatesPassed == permission \in RequiredPermissions /\ all_checks_passed

\* C1: in a /merge run the merge PUT is issued only after the three gates passed, in
\* the order permission of the comment sender, check runs, votes >= threshold; a gate
\* is evaluated only when the gates before it passed.
C1_MergeOnlyAfterGates ==
    command = "merge" =>
        /\ pc = "merge_checks" =>
              answer.status_code = 200 /\ answer.permission \in RequiredPermissions
        /\ pc = "votes" =>
              /\ answer.status_code = 200
              /\ \A c \in Range(answer.check_runs) : ~Offending(c)
        /\ CheckRunsGets # {} =>
              /\ permission \in RequiredPermissions
              /\ \A b \in CheckRunsGets : \E a \in PermissionGets :
                    a < b /\ calls[a].arg = comment_sender
        /\ CommentsGets # {} =>
              /\ GatesPassed
              /\ \A c \in CommentsGets : \E b \in CheckRunsGets : b < c
        /\ MergePuts # {} =>
              /\ GatesPassed
              /\ valid_votes >= lgtm_threshold
              /\ \A k \in MergePuts : \E c \in CommentsGets : c < k

\* C1 witness: a merge PUT was issued, with one vote at least behind it
C1_Witness ==
    /\ command = "merge" /\ pc = "done"
    /\ MergePuts # {}
    /\ Len(lgtm_users) >= 1

\* C2: a /lgtm comment of the PR sender among the fetched comments makes vote
\* collection (of lgtm and of merge) post the self-approval notification and exit
\* with code 1, whatever other votes there are; nothing but that notification
\* follows the comments fetch.
C2_SelfApprovalIsFatal ==
    SelfApproved =>
        /\ pc \in {"votes_self", "lgtm_self", "done"}
        /\ ReviewPosts = {} /\ MergePuts = {}
        /\ Cardinality(CommentsGets) = 1
        /\ \A g \in CommentsGets :
              /\ Len(calls) <= g + 1
              /\ \A k \in PermissionGets : k < g
              /\ pc = "done" =>
                    /\ exit_code = 1
                    /\ Len(calls) = g + 1
                    /\ Notified(g + 1, "SELF_APPROVAL_ERROR")

\* C2 witness: the run ended on a self-approval although another login voted too
C2_Witness ==
    /\ pc = "done" /\ command = "merge"
    /\ SelfApproved
    /\ LgtmAuthors # {pr_sender}
    /\ exit_code = 1

\* C3: in a /merge run, a failed check, or a pending one that is not the bot's own,
\* blocks the merge: the offending checks are notified, the exit code is 1, and
\* neither vote collection nor the merge PUT is issued.
C3_FailedChecksBlockMerge ==
    command = "merge" =>
        /\ (/\ pc \in {"votes", "merge_checks_failed"}
            /\ answer.status_code = 200
            /\ \E c \in Range(answer.check_runs) : Offending(c))
           => /\ pc = "merge_checks_failed"
              /\ Range(failed_checks) = {c \in Range(answer.check_runs) : Offending(c)}
        /\ failed_checks # <<>> =>
              /\ pc \in {"merge_checks_failed", "done"}
              /\ CommentsGets = {} /\ MergePuts = {}
              /\ pc = "done" =>
                    /\ exit_code = 1
                    /\ Notified(Len(calls), "CHECKS_NOT_PASSED")
                    /\ calls[Len(calls)].data = failed_checks

\* C3 witness: a run blocked by a failed check and a pending one
C3_Witness ==
    /\ command = "merge" /\ pc = "done" /\ exit_code = 1
    /\ \E c \in Range(failed_checks) : c.status = "completed"
    /\ \E c \in Range(failed_checks) : c.status # "completed"

\* C4: in a /merge run, a comment sender whose permission is not in the required set,
\* a failed lookup included, gets the insufficient-permission notification and exit
\* code 1, before any check-run fetch, vote collection or merge PUT.
C4_DeniedSenderIsNotified ==
    (/\ command = "merge" /\ pc = "done"
     /\ PermissionGets # {}
     /\ permission \notin RequiredPermissions)
    => /\ exit_code = 1
       /\ \E k \in 1..Len(calls) : Notified(k, "INSUFFICIENT_PERMISSIONS")
       /\ CheckRunsGets = {} /\ CommentsGets = {} /\ MergePuts = {}

\* C5: in a /merge run whose gates passed and whose valid votes are below the
\* threshold, the not-enough-approvals notification is posted, merge_pr returns
\* False, no merge PUT is issued and the process does not exit with an error code.
C5_DeclineIsNotFatal ==
    (/\ command = "merge" /\ pc = "done"
     /\ GatesPassed
     /\ VotesCollected
     /\ valid_votes < lgtm_threshold)
    => /\ Notified(Len(calls), "NOT_ENOUGH_LGTM")
       /\ ret = "False"
       /\ MergePuts = {}
       /\ exit_code = 0

CherryPickFailed ==
    \/ \E k \in 1..Len(calls) :
           Notified(k, "CHERRY_PICK_ERROR") \/ Notified(k, "CHERRY_PICK_CONFLICT")
    \/ LastCallIs("POST", "merges")

\* C6: gates passed, votes >= threshold, the merge PUT answered 200 and no cherry-pick
\* failed: exactly one PUT with the merge method and the title/message of the PR,
\* sender and vote count, a success notification, and merge_pr returns True.
C6_MergeSucceeds ==
    (/\ command = "merge" /\ pc = "done"
     /\ Cardinality(CommentsGets) = 2
     /\ raised # "BoussoleError"
     /\ ~(LastCallIs("GET", "issues/{pr_num}/comments") /\ answer.status_code # 200)
     /\ ~CherryPickFailed)
    => /\ Cardinality(MergePuts) = 1
       /\ \A k \in MergePuts :
             /\ calls[k].arg = merge_method
             /\ calls[k].data.commit_message[4] = pr_sender
             /\ calls[k].data.commit_message[6] = valid_votes
       /\ Notified(Len(calls), "SUCCESS_MERGED")
       /\ ret = "True"

\* C7: without self-approval, the valid-vote count that vote collection returns is
\* the number of distinct /lgtm authors whose resolved permission is in the required
\* set, a failed lookup resolving to no permission.
C7_ValidVotesAreQualifiedAuthors ==
    /\ (/\ pc \in {"votes_perm", "lgtm_perm", "merge_tally", "lgtm_tally"}
        /\ idx > 1)
       => lgtm_users[idx - 1].permission =
              IF answer.status_code = 200 /\ answer.permission # ""
              THEN answer.permission
              ELSE None
    /\ pc \in {"merge_tally", "lgtm_tally"} =>
          /\ {lgtm_users[k].login : k \in 1..Len(lgtm_users)} = LgtmAuthors
          /\ valid_votes =
                Cardinality({u \in LgtmAuthors : ResolvedPermission(u) \in RequiredPermissions})

\* C7 witness: two authors voted, one with a required permission and one whose
\* lookup gave none
C7_Witness ==
    /\ pc = "merge_tally"
    /\ Cardinality(LgtmAuthors) = 2
    /\ valid_votes = 1
    /\ \E u \in LgtmAuthors : ResolvedPermission(u) = None

\* the comments in another order
Reordered(cs) ==
    {[k \in 1..Len(cs) |-> cs[p[k]]] : p \in Permutations(1..Len(cs))}

CountValid(users) ==
    Cardinality({k \in 1..Len(users) :
                    ResolvedPermission(users[k].login) \in lgtm_permissions})

\* C8: the valid-vote count, and with it the decision against the threshold, is the
\* same for every order of the fetched comments, the permission of each login being
\* the one its lookup gave.
C8_OrderDoesNotMatter ==
    pc \in {"merge_tally", "lgtm_tally"} =>
        LET given == Range(CollectVotes(comments).users)
        IN  \A q \in Reordered(comments) :
                LET scan == CollectVotes(q)
                    count == CountValid(scan.users)
                IN  /\ ~scan.self_approval
                    /\ Range(scan.users) = given
                    /\ count = valid_votes
                    /\ (count >= lgtm_threshold) = (valid_votes >= lgtm_threshold)

\* C8 witness: two comments that differ, a vote among them, at the tally
C8_Witness ==
    /\ pc = "lgtm_tally"
    /\ Len(comments) = 2 /\ comments[1] # comments[2]
    /\ ~IsLgtmComment(comments[1].body)
    /\ valid_votes = 1

\* C9: a login is one key of the vote map however many /lgtm comments it wrote, and
\* the valid-vote count never exceeds the number of distinct /lgtm authors.
C9_OneVotePerLogin ==
    /\ \A j, k \in 1..Len(lgtm_users) :
          lgtm_users[j].login = lgtm_users[k].login => j = k
    /\ valid_votes <= Len(lgtm_users)
    /\ pc \in {"votes_perm", "lgtm_perm", "merge_tally", "lgtm_tally"} =>
          /\ Len(lgtm_users) = Cardinality(LgtmAuthors)
          /\ valid_votes <= Cardinality(LgtmAuthors)

\* C9 witness: one login wrote two /lgtm comments and counts once
C9_Witness ==
    /\ pc = "lgtm_tally"
    /\ Len(comments) = 2
    /\ IsLgtmComment(comments[1].body) /\ IsLgtmComment(comments[2].body)
    /\ comments[1].login = comments[2].login
    /\ Len(lgtm_users) = 1
    /\ valid_votes = 1

\* C10: /lgtm without self-approval and with valid votes >= threshold posts exactly
\* one review with the configured event and returns the valid-vote count.
C10_LgtmApproves ==
    (/\ command = "lgtm" /\ pc = "done"
     /\ VotesCollected
     /\ valid_votes >= lgtm_threshold
     /\ raised # "BoussoleError")
    => /\ Cardinality(ReviewPosts) = 1
       /\ \A k \in ReviewPosts : calls[k].arg = lgtm_review_event
       /\ ret = "valid_votes"

\* C11: /lgtm whose valid votes stay below the threshold posts the vote breakdown,
\* posts no review and exits with code 0.
C11_BreakdownExitsZero ==
    (/\ command = "lgtm" /\ pc = "done"
     /\ VotesCollected
     /\ valid_votes < lgtm_threshold)
    => /\ Notified(Len(calls), "LGTM_BREAKDOWN_TEMPLATE")
       /\ ReviewPosts = {}
       /\ exit_code = 0

IsMergesPost(call) == call.method = "POST" /\ call.endpoint = "merges"

MergesPostsTo(branch) == {k \in CallsTo("POST", "merges") : calls[k].arg = branch}

\* the request a step has just issued is a POST merges
PostsMerges == Len(calls') = Len(calls) + 1 /\ IsMergesPost(calls'[Len(calls')])

\* C12: the merges POSTs of a target branch carry the commits in the order the API
\* returned them, position 1, 2, ..: the first is the first POST for the branch, and
\* each later one directly follows the POST of the position before it, answered 201.
\* After a 409 (or any other answer) no further POST for the branch is issued.
C12_CommitsInOrder ==
    [][PostsMerges =>
         LET post == calls'[Len(calls')]
         IN  /\ post.arg = target_branch
             /\ post.data.total = Len(commits)
             /\ post.data.position \in 1..Len(commits)
             /\ post.data.head = commits[post.data.position]
             /\ IF post.data.position = 1
                THEN MergesPostsTo(post.arg) = {}
                ELSE /\ LastCallIs("POST", "merges")
                     /\ calls[Len(calls)].arg = post.arg
                     /\ calls[Len(calls)].data.position = post.data.position - 1
                     /\ answer.status_code = 201]_vars

\* C12 witness: two commits, the first answered 409: the run ended with one POST
\* for the branch, the second commit never attempted
C12_Witness ==
    /\ pc = "done"
    /\ Len(commits) = 2 /\ i = 1
    /\ LastCallIs("POST", "merges")
    /\ answer.status_code = 409
    /\ Cardinality(MergesPostsTo(target_branch)) = 1

\* C13: a 409 on commit i of N is followed by the conflict notification naming the
\* target branch, the commit and i/N, and _perform_cherry_pick returns False.
C13_ConflictIsReported ==
    [][pc = "cp_conflict" =>
         /\ Len(calls') = Len(calls) + 1
         /\ calls'[Len(calls')] =
                Call("POST", "issues/{pr_num}/comments", "CHERRY_PICK_CONFLICT",
                     [target_branch |-> target_branch, commit_sha |-> commits[i],
                      current_commit |-> i, total_commits |-> Len(commits)])
         /\ pc' = "done"
         /\ raised' = "KeyError" => FALSE
         /\ raised' = "none" => ret' = "False"]_vars

BranchGets == CallsTo("GET", "git/refs/heads/{branch}")
CreatePosts == CallsTo("POST", "git/refs")
CommitsGets == CallsTo("GET", "pulls/{pr_num}/commits")

\* the latest request looked a branch up and the answer names no SHA
LookupFoundNothing(branch) ==
    /\ LastCallIs("GET", "git/refs/heads/{branch}")
    /\ calls[Len(calls)].arg = branch
    /\ (answer.status_code # 200 \/ answer.sha = None)

\* C14: a target branch that does not exist is created from the SHA of the PR's base
\* branch before any merges POST; a base SHA that cannot be resolved means no POST
\* git/refs and no merges POST, a failed creation means no merges POST, and either
\* failure is notified with the step that failed.
C14_BranchCreatedFromBase ==
    /\ LookupFoundNothing(target_branch) => pc = "cp_base"
    /\ LookupFoundNothing(base_branch) =>
          pc = "cp_error" /\ error_text = "Could not find base branch"
    /\ \A k \in CreatePosts :
          /\ k - 1 \in BranchGets /\ calls[k - 1].arg = base_branch
          /\ k - 2 \in BranchGets /\ calls[k - 2].arg = calls[k].arg
          /\ calls[k].data # None
          /\ calls[k].arg = target_branch => calls[k].data = base_sha
          /\ \A j \in MergesPostsTo(calls[k].arg) : k < j
    /\ (LastCallIs("POST", "git/refs") /\ answer.status_code # 201) =>
          pc \in {"cp_error", "done"} /\ (pc = "cp_error" => error_text = "Could not create branch")
    /\ (pc = "cp_apply" /\ i = 1) =>
          \/ LastCallIs("POST", "git/refs") /\ answer.status_code = 201
          \/ /\ LastCallIs("GET", "git/refs/heads/{branch}")
             /\ answer.status_code = 200 /\ answer.sha # None
    /\ (pc = "done" /\ error_text \in {"Could not find base branch", "Could not create branch"}) =>
          /\ Notified(Len(calls), "CHERRY_PICK_ERROR")
          /\ calls[Len(calls)].data.error_text = error_text
          /\ calls[Len(calls)].data.target_branch = target_branch
          /\ MergesPostsTo(target_branch) = {}
          /\ error_text = "Could not find base branch" =>
                \A k \in CreatePosts : calls[k].arg # target_branch

\* C15: the success notification of a target branch directly follows the N-th merges
\* POST of the branch, every one of the N answered 201, carries the SHA the N-th
\* answer returned, and is posted once per branch; only then does _perform_cherry_pick
\* return True to the loop of merge_pr.
C15_SuccessAfterAllApplied ==
    /\ (pc = "cp_apply" /\ i > 1) =>
          /\ LastCallIs("POST", "merges")
          /\ calls[Len(calls)].data.position = i - 1
          /\ answer.status_code = 201
          /\ current_sha = <<"merged", commits[i - 1]>>
    /\ pc = "cp_success" =>
          /\ i = Len(commits) + 1 /\ Len(commits) >= 1
          /\ LastCallIs("POST", "merges")
          /\ calls[Len(calls)].data.position = Len(commits)
          /\ answer.status_code = 201
          /\ Cardinality(MergesPostsTo(target_branch)) = Len(commits)
          /\ current_sha = <<"merged", commits[Len(commits)]>>
    /\ target_branch # <<>> =>
          LET notes == {k \in 1..Len(calls) : Notified(k, "CHERRY_PICK_SUCCESS")}
          IN  \A k \in notes :
                /\ k - 1 \in MergesPostsTo(calls[k].data.target_branch)
                /\ calls[k - 1].data.position = calls[k - 1].data.total
                /\ Cardinality(MergesPostsTo(calls[k].data.target_branch))
                       = calls[k - 1].data.total
                /\ calls[k].data.commit_sha = <<"merged", calls[k - 1].data.head>>
                /\ \A j \in notes :
                      calls[j].data.target_branch = calls[k].data.target_branch => j = k
    /\ (pc = "merge_cherry_picks" /\ target_branch # <<>>) =>
          Notified(Len(calls), "CHERRY_PICK_SUCCESS")

\* C15 witness: a branch took both commits of the PR and the loop of merge_pr goes on
C15_Witness ==
    /\ pc = "merge_cherry_picks"
    /\ Notified(Len(calls), "CHERRY_PICK_SUCCESS")
    /\ Len(commits) = 2
    /\ calls[Len(calls)].data.commit_sha = <<"merged", commits[2]>>

\* C16: an answer to POST merges other than 201 and 409 is followed by the cherry-pick
\* error notification with that status and body; no further commit is attempted, no
\* success notification is posted for the branch and _perform_cherry_pick returns False.
C16_ErrorIsReported ==
    /\ (LastCallIs("POST", "merges") /\ answer.status_code \notin {201, 409}) =>
          /\ pc = "cp_error"
          /\ response = answer.status_code
          /\ error_text = "response.text"
    /\ (pc = "done" /\ error_text = "response.text") =>
          /\ Notified(Len(calls), "CHERRY_PICK_ERROR")
          /\ calls[Len(calls)].data.status_code = response
          /\ calls[Len(calls)].data.error_text = error_text
          /\ Len(calls) - 1 \in MergesPostsTo(target_branch)
          /\ \A k \in 1..Len(calls) :
                Notified(k, "CHERRY_PICK_SUCCESS") => calls[k].data.target_branch # target_branch
          /\ raised = "none" => ret = "False"

\* C17: when merge_pr has returned after a successful merge, the sequencer was run for
\* every target branch the /cherry-pick directives name: none is left out because
\* another one failed or conflicted.
C17_EveryBranchIsSequenced ==
    (/\ command = "merge" /\ pc = "done"
     /\ ret \in {"True", "False"}
     /\ Cardinality(CommentsGets) = 2)
    => cherry_pick_branches = {}

IsSequencerCall(call) ==
    \/ call.method = "GET" /\ call.endpoint = "pulls/{pr_num}/commits"
    \/ call.method = "GET" /\ call.endpoint = "git/refs/heads/{branch}"
    \/ call.method = "POST" /\ call.endpoint = "git/refs"
    \/ call.method = "POST" /\ call.endpoint = "merges"

SequencerCalls == {k \in 1..Len(calls) : IsSequencerCall(calls[k])}

\* the step issues a request of the sequencer
StartsSequencerCall ==
    Len(calls') = Len(calls) + 1 /\ IsSequencerCall(calls'[Len(calls')])

\* C18: a request of the cherry-pick sequencer is issued only once the merge PUT was
\* answered 200 and the comments were fetched again, and the sequencer runs once per
\* distinct branch name, however many directives (in whatever case) name the branch.
C18_SequencingAfterMergeOncePerBranch ==
    /\ [](/\ pc = "merge_comments" =>
               /\ LastCallIs("PUT", "pulls/{pr_num}/merge")
               /\ answer.status_code = 200 /\ response = 200
          /\ (pc = "merge_cherry_picks" /\ SequencerCalls = {}) =>
               /\ Len(calls) - 1 \in MergePuts
               /\ cherry_pick_branches = Range(answer.directives)
          /\ \A k \in SequencerCalls : \E p \in MergePuts : p + 1 \in CommentsGets /\ p + 1 < k
          /\ \A j, k \in CommitsGets : calls[j].arg = calls[k].arg => j = k)
    /\ [][StartsSequencerCall =>
             /\ MergePuts # {}
             /\ response = 200
             /\ Cardinality(CommentsGets) = 2]_vars

\* C18 witness: merged, and the comments fetched after the merge carry two directives
\* for one branch: the sequencer is about to run for that one branch
C18_Witness ==
    /\ pc = "merge_cherry_picks"
    /\ SequencerCalls = {}
    /\ Len(calls) - 1 \in MergePuts
    /\ Len(answer.directives) = 2
    /\ Cardinality(cherry_pick_branches) = 1

\* C19: merged, and a cherry-pick failed or conflicted: merge_pr returns False, posts
\* no merge success notification and issues no request that would undo the merge.
C19_FailedPickFailsTheMerge ==
    (/\ command = "merge" /\ pc = "done"
     /\ Cardinality(CommentsGets) = 2
     /\ raised # "BoussoleError"
     /\ CherryPickFailed)
    => /\ ret = "False"
       /\ \A k \in 1..Len(calls) : ~Notified(k, "SUCCESS_MERGED")
       /\ \A p \in MergePuts : \A k \in (p + 1)..Len(calls) :
             calls[k].method \notin {"PUT", "DELETE", "PATCH"}

\* C20: the command /cherry-pick with one argument runs the sequencer for that branch:
\* the commits of the PR are fetched and merges POSTs onto the branch are issued.
C20_CherryPickCommandSequences ==
    (/\ command = "cherry-pick" /\ pc = "done"
     /\ Len(values) = 1
     /\ ret = None)
    => /\ CommitsGets # {}
       /\ MergesPostsTo(values[1]) # {}

\* ------------------------------------------------------------ C21 .. C30
IsSuccessStatus(status_code) == status_code >= 200 /\ status_code <= 299

PrIsOpen == pr_status.status_code = 200 /\ pr_status.state = "open"

MergeRequestFailed ==
    \/ \E k \in 1..Len(calls) : Notified(k, "MERGE_FAILED")
    \/ LastCallIs("PUT", "pulls/{pr_num}/merge") /\ answer.status_code # 200

FatalNotice ==
    \E k \in 1..Len(calls) :
        \/ Notified(k, "INSUFFICIENT_PERMISSIONS")
        \/ Notified(k, "CHECKS_NOT_PASSED")
        \/ Notified(k, "SELF_APPROVAL_ERROR")

CommentsFetchFailed ==
    LastCallIs("GET", "issues/{pr_num}/comments") /\ answer.status_code # 200

\* what the run ended on is a failure: no command, a PR that is not open, a refused
\* validation or permission, a failed fetch, an error of the remote side or of the
\* program, a refused merge request, a failed cherry-pick
EndedOnFailure ==
    \/ command = None
    \/ ~PrIsOpen
    \/ raised # "none"
    \/ command = "cherry-pick" /\ Len(values) # 1
    \/ FatalNotice
    \/ CommentsFetchFailed
    \/ MergeRequestFailed
    \/ CherryPickFailed
    \/ ret = "response" /\ ~IsSuccessStatus(response)

\* C21: the exit code is 1 exactly when the run ended on a fatal validation,
\* permission, fetch or remote-API failure, a refused merge request and a failed
\* cherry-pick after the merge included; it is 0 when the command succeeded or was
\* declined for insufficient votes.
C21_ExitCodeTellsOutcome ==
    pc = "done" =>
        /\ exit_code \in {0, 1}
        /\ exit_code = 1 <=> EndedOnFailure

\* C22: the first request of an invocation is the fetch of the PR status, and no
\* handler runs before it; when that fetch is answered with a status other than 200,
\* or with a state other than open, the run ends there with exit code 1: the fetch
\* stays the only request.
C22_OnlyOpenPrIsHandled ==
    /\ calls # <<>> =>
          calls[1].method = "GET" /\ calls[1].endpoint = "pulls/{pr_num}"
    /\ pc \notin {"main", "check_status", "done"} => Len(calls) >= 1
    /\ (Len(calls) = 1 /\ (answer.status_code # 200 \/ answer.state # "open")) =>
          pc = "done" /\ exit_code = 1
    /\ Len(calls) >= 2 => PrIsOpen

\* C22 witness: a /merge on a closed PR ended after the status fetch
C22_Witness ==
    /\ command = "merge" /\ pc = "done" /\ exit_code = 1
    /\ Len(calls) = 1
    /\ answer.status_code = 200 /\ answer.state = "closed"

\* the claims' reading of a trigger text: the word after a leading "/", up to the
\* first whitespace, and what follows it
LeadingToken(text) ==
    IF text # <<>> /\ Head(text) = "/" THEN TakeUntil(Tail(text), Whitespace) ELSE <<>>

AfterToken(text) ==
    SubSeq(text, Len(LeadingToken(text)) + 2, Len(text))

CommandWords == {CommandPattern[k].text : k \in 1..Len(CommandPattern)}

\* C23: a trigger text whose leading /<word> token is not one of the nine commands
\* ends the run with exit code 1 and without any request; for one of the nine the
\* command is that token and the values are the rest of the text split at whitespace.
C23_OnlyWholeCommandsAreTaken ==
    pc # "main" =>
        IF LeadingToken(trigger_comment) \notin CommandWords
        THEN pc = "done" /\ exit_code = 1 /\ calls = <<>>
        ELSE /\ \E k \in 1..Len(CommandPattern) :
                   /\ CommandPattern[k].text = LeadingToken(trigger_comment)
                   /\ CommandPattern[k].name = command
             /\ values = Split(AfterToken(trigger_comment))

IssuesPermissionGet ==
    /\ Len(calls') = Len(calls) + 1
    /\ calls'[Len(calls')].method = "GET"
    /\ calls'[Len(calls')].endpoint = "collaborators/{user}/permission"

\* C24: a permission lookup gives (None, False) for a 404, for any other status but
\* 200 and for a 200 without permission, and (permission, permission is required)
\* otherwise; the caller gets that pair and goes on: the lookup itself never ends the
\* invocation.
C24_LookupAlwaysAnswers ==
    [][IssuesPermissionGet =>
          LET expected == IF answer'.status_code = 200 /\ answer'.permission # ""
                          THEN answer'.permission
                          ELSE None
              is_valid == expected \in RequiredPermissions
          IN  /\ raised' = "none"
              /\ pc' # "done"
              /\ IF pc = "merge_pr"
                 THEN /\ permission' = expected
                      /\ (pc' = "merge_checks") = is_valid
                 ELSE /\ lgtm_users'[idx].permission = expected
                      /\ valid_votes' = valid_votes + (IF is_valid THEN 1 ELSE 0)]_vars

\* C25: within one invocation the permission of a login is looked up at most once:
\* no two GET collaborators/{login}/permission requests name the same login.
C25_OneLookupPerLogin ==
    \A j, k \in PermissionGets : calls[j].arg = calls[k].arg => j = k

\* C26: when the comments fetch of vote collection (the one before any merge PUT) is
\* answered with a status other than 200, the run ends there with exit code 1: the
\* fetch is the last request, so no permission lookup, review POST or merge PUT
\* follows it.
C26_FailedFetchIsFatal ==
    (CommentsFetchFailed /\ MergePuts = {}) =>
        /\ pc = "done"
        /\ exit_code = 1
        /\ ReviewPosts = {}
        /\ \A k \in PermissionGets : k < Len(calls)

\* C26 witness: a /lgtm whose comments fetch was answered 500 to a client that
\* returns the answer
C26_Witness ==
    /\ command = "lgtm" /\ pc = "done" /\ exit_code = 1
    /\ raised = "none"
    /\ LastCallIs("GET", "issues/{pr_num}/comments")
    /\ answer.status_code = 500

IssuesMergePut ==
    /\ Len(calls') = Len(calls) + 1
    /\ calls'[Len(calls')].method = "PUT"
    /\ calls'[Len(calls')].endpoint = "pulls/{pr_num}/merge"

\* C27: a merge PUT answered with a status other than 200 takes merge_pr to the
\* merge-failed notification, which carries that status; merge_pr then returns False,
\* and the invocation holds one merge PUT and no cherry-pick request.
C27_RefusedMergeIsReported ==
    [][/\ (IssuesMergePut /\ answer'.status_code # 200) =>
             /\ pc' = "merge_failed"
             /\ response' = answer'.status_code
       /\ pc = "merge_failed" =>
             /\ calls'[Len(calls')].method = "POST"
             /\ calls'[Len(calls')].endpoint = "issues/{pr_num}/comments"
             /\ calls'[Len(calls')].arg = "MERGE_FAILED"
             /\ calls'[Len(calls')].data = response
             /\ pc' = "done" /\ ret' = "False"
             /\ Cardinality(MergePuts') = 1
             /\ SequencerCalls' = {}]_vars

ReviewerCalls ==
    {k \in 1..Len(calls) : calls[k].endpoint = "pulls/{pr_num}/requested_reviewers"}

\* a username without its "@" prefix
WithoutAt(user) == IF user # <<>> /\ Head(user) = "@" THEN Tail(user) ELSE user

\* C28: assign and unassign submit one reviewer list, the given usernames in their
\* order and number, each without its leading "@"; assign submits it with POST and
\* unassign with DELETE to pulls/{n}/requested_reviewers.
C28_ReviewersWithoutPrefix ==
    /\ \A k \in ReviewerCalls :
          /\ command \in {"assign", "unassign"}
          /\ calls[k].method = IF command = "assign" THEN "POST" ELSE "DELETE"
          /\ Len(calls[k].data) = Len(values)
          /\ \A j \in 1..Len(values) : calls[k].data[j] = WithoutAt(values[j])
    /\ (command \in {"assign", "unassign"} /\ pc \in {"assign_comment", "done"} /\ PrIsOpen) =>
          ReviewerCalls = {2}

\* C28 witness: an unassign of a username with the prefix and one without
C28_Witness ==
    /\ command = "unassign" /\ pc = "done"
    /\ values = <<Str_at_u1, Str_u2>>
    /\ ReviewerCalls = {2}
    /\ calls[2].method = "DELETE"
    /\ calls[2].data = <<Str_u1, Str_u2>>

LabelDeletes == CallsTo("DELETE", "issues/{pr_num}/labels/{label}")
LabelPosts == CallsTo("POST", "issues/{pr_num}/labels")
CommentPosts == CallsTo("POST", "issues/{pr_num}/comments")

\* C29: unlabel issues one DELETE per given label, in the order of the arguments, and
\* then one confirmation comment, whatever the DELETEs were answered; label issues
\* one add-labels POST with the given labels and one confirmation comment.
C29_LabelsAreSubmittedAndConfirmed ==
    /\ (command = "unlabel" /\ pc = "done" /\ PrIsOpen) =>
          /\ Len(calls) = Len(values) + 2
          /\ LabelDeletes = 2..(Len(values) + 1)
          /\ \A j \in 1..Len(values) : calls[j + 1].arg = values[j]
          /\ CommentPosts = {Len(calls)}
          /\ Notified(Len(calls), "Removed labels")
    /\ (command = "label" /\ pc = "done" /\ PrIsOpen) =>
          /\ Cardinality(LabelPosts) = 1
          /\ \A k \in LabelPosts : calls[k].data = values
          /\ Cardinality(CommentPosts) = 1
          /\ \A k \in CommentPosts : Notified(k, "Added labels")

FailureNotices ==
    {"INSUFFICIENT_PERMISSIONS", "CHECKS_NOT_PASSED", "SELF_APPROVAL_ERROR", "MERGE_FAILED",
     "CHERRY_PICK_ERROR", "CHERRY_PICK_CONFLICT", "COMMENTS_FETCH_ERROR"}

\* C30: a run that ends with exit code 1 after the PR was found open has posted,
\* before it ended, a comment on the PR that tells the failure.
C30_FatalExitIsNotified ==
    (pc = "done" /\ exit_code = 1 /\ PrIsOpen) =>
        \E k \in CommentPosts : calls[k].arg \in FailureNotices

\* ------------------------------------------------------------ C31 .. C40
\* C31: no write is retried: an invocation holds one merge PUT at most, a commit is
\* submitted to the merges endpoint once at most for a target branch, and the merges
\* POSTs for a branch are never more than the N commits of the PR.
C31_NoWriteIsRetried ==
    /\ Cardinality(MergePuts) <= 1
    /\ \A j, k \in CallsTo("POST", "merges") :
          (calls[j].arg = calls[k].arg /\ calls[j].data.head = calls[k].data.head) => j = k
    /\ \A k \in CallsTo("POST", "merges") :
          Cardinality(MergesPostsTo(calls[k].arg)) <= calls[k].data.total

\* C31 witness: the second of two commits was answered with an error and the run
\* ended with two merges POSTs for the branch
C31_Witness ==
    /\ pc = "done"
    /\ Len(commits) = 2
    /\ Cardinality(MergesPostsTo(target_branch)) = 2
    /\ Notified(Len(calls), "CHERRY_PICK_ERROR")
    /\ response = 500

\* C32: a run ends by a normal return or by an explicit exit with code 0 or 1, never
\* by an exception nobody handles, be it a template that cannot be formatted or an
\* error the remote client raised.
C32_NoUnhandledException ==
    /\ raised = "none"
    /\ pc = "done" => exit_code \in {0, 1}

IssuesRequest == Len(calls') = Len(calls) + 1

\* C33: the remote client hands every answer back to its caller, whatever the HTTP
\* status: a request answered outside 2xx raises no error, and the handler goes on
\* with the status code.
C33_ClientReturnsEveryStatus ==
    [][(IssuesRequest /\ ~IsSuccessStatus(answer'.status_code)) =>
          /\ raised' # "BoussoleError"
          /\ ApiRequest(answer'.status_code) = "response"]_vars

StatusGets == CallsTo("GET", "pulls/{pr_num}")

BaseGets == {k \in BranchGets : calls[k].arg = base_branch}

CaseVariantVotes ==
    {k \in 1..Len(comments) :
        /\ IsLgtmComment(comments[k].body)
        /\ comments[k].login # pr_sender
        /\ LowerLogin(comments[k].login) = LowerLogin(pr_sender)}

\* C35: the self-approval check is an exact comparison of logins: only a /lgtm of the
\* very login of the PR sender stops vote collection; a /lgtm of a login that differs
\* from it in letter case alone is a candidate vote like any other, counted when its
\* permission is a required one.
C35_SelfApprovalIsCaseSensitive ==
    /\ pc \in {"votes_self", "lgtm_self"} =>
          \E k \in 1..Len(comments) :
              IsLgtmComment(comments[k].body) /\ comments[k].login = pr_sender
    /\ pc \in {"votes_perm", "lgtm_perm", "merge_tally", "lgtm_tally"} =>
          \A k \in CaseVariantVotes : HasKey(lgtm_users, comments[k].login)
    /\ pc \in {"merge_tally", "lgtm_tally"} =>
          \A k \in CaseVariantVotes :
              valid_votes >=
                  IF ResolvedPermission(comments[k].login) \in RequiredPermissions THEN 1 ELSE 0

\* C35 witness: the only vote is a /lgtm of Test_User on a PR of test_user, and it
\* counts
C35_Witness ==
    /\ pc = "lgtm_tally"
    /\ CaseVariantVotes # {}
    /\ Len(lgtm_users) = 1
    /\ lgtm_users[1].login = "Test_User"
    /\ valid_votes = 1

\* C36: a /cherry-pick with no argument or with more than one ends with exit code 1
\* once the PR was found open; the status fetch stays the only request: no comment
\* is posted and nothing is written.
C36_CherryPickNeedsOneArgument ==
    (command = "cherry-pick" /\ Len(values) # 1) =>
        /\ Len(calls) <= 1
        /\ (pc = "done" /\ PrIsOpen) =>
              /\ exit_code = 1
              /\ raised = "none"
              /\ calls[1].method = "GET"

\* C36 witness: a /cherry-pick with two branch names on an open PR has ended
C36_Witness ==
    /\ command = "cherry-pick" /\ Len(values) = 2
    /\ pc = "done" /\ PrIsOpen
    /\ exit_code = 1
    /\ Len(calls) = 1

\* the latest request fetched the PR's commits and gave none: non-200, or an empty list
CommitsFetchGaveNone ==
    /\ LastCallIs("GET", "pulls/{pr_num}/commits")
    /\ answer.status_code # 200 \/ answer.commits = <<>>

\* C37: a commits fetch answered non-200 or with an empty list is followed by the
\* cherry-pick error notification and by nothing else: no branch lookup, no branch
\* creation, no merges POST; _perform_cherry_pick returns False, and a success is
\* never notified for a PR without commits.
C37_NoCommitsIsAnError ==
    /\ CommitsFetchGaveNone =>
          /\ pc = "cp_error"
          /\ error_text = "Could not fetch PR commits"
          /\ commits = <<>>
    /\ \A k \in CommitsGets :
          (pc = "done" /\ k = Len(calls) - 1 /\ commits = <<>>) =>
              /\ Notified(Len(calls), "CHERRY_PICK_ERROR")
              /\ calls[Len(calls)].data.target_branch = calls[k].arg
              /\ raised = "none" => ret = "False"
    /\ commits = <<>> =>
          \A k \in CommitsGets : \A j \in (k + 1)..Len(calls) :
              (\A n \in CommitsGets : n <= k) =>
                  /\ j = k + 1
                  /\ Notified(j, "CHERRY_PICK_ERROR")
    /\ pc = "cp_success" => commits # <<>>

\* C38: a target-branch lookup answered non-200 (404, 500), or 200 without an object
\* SHA, counts as "branch absent": the sequencer goes on to look up the base branch,
\* and with the base SHA found its next request is the creation POST for the target
\* branch from that SHA.
C38_FailedLookupMeansAbsent ==
    [][/\ (pc = "cp_branch" /\ (answer'.status_code # 200 \/ answer'.sha = None)) =>
              /\ calls'[Len(calls')] = Call("GET", "git/refs/heads/{branch}", target_branch, "")
              /\ pc' = "cp_base"
              /\ current_sha' = None
       /\ pc = "cp_base" =>
              /\ calls'[Len(calls')] = Call("GET", "git/refs/heads/{branch}", base_branch, "")
              /\ (answer'.status_code = 200 /\ answer'.sha # None) =>
                     pc' = "cp_create" /\ base_sha' = answer'.sha
       /\ pc = "cp_create" =>
              /\ current_sha = None
              /\ calls'[Len(calls')] = Call("POST", "git/refs", target_branch, base_sha)]_vars

\* the check-runs fetch of this invocation was answered with a non-200 status
CheckRunsFetchFailed ==
    /\ CheckRunsGets # {}
    /\ \/ LastCallIs("GET", "commits/{sha}/check-runs") /\ answer.status_code # 200
       \/ ~LastCallIs("GET", "commits/{sha}/check-runs")
            /\ ~all_checks_passed /\ failed_checks = <<>>

\* C39: a check-runs fetch answered with a non-200 status counts as checks not
\* passed: the checks-not-passed notification is posted with an empty list, the
\* process exits with code 1 by sys.exit, and neither the comments are fetched for
\* the votes nor a merge PUT is issued.
C39_FailedChecksFetchBlocksMerge ==
    CheckRunsFetchFailed =>
        /\ CommentsGets = {} /\ MergePuts = {}
        /\ raised = "none"
        /\ pc \in {"merge_checks_failed", "done"}
        /\ pc = "done" =>
              /\ Notified(Len(calls), "CHECKS_NOT_PASSED")
              /\ calls[Len(calls)].data = <<>>
              /\ Len(calls) - 1 \in CheckRunsGets
              /\ exit_code = 1

\* the logins of a vote map, in the order of its keys
VoteLogins(users) == [k \in 1..Len(users) |-> users[k].login]

\* the votes are being collected or have been tallied, by lgtm's copy or by
\* _fetch_and_validate_lgtm_votes
InLgtmCollection == pc \in {"lgtm_self", "lgtm_perm", "lgtm_tally"}
InMergeCollection == pc \in {"votes_self", "votes_perm", "merge_tally"}

\* what either copy has to have done with the fetched comments, given the scan of
\* them: the self-approval or the candidates, one lookup per candidate in the map's
\* order right after the fetch, the permissions noted so far, the votes counted so far
CollectedAs(scan, at_self, at_perm, at_tally) ==
    LET fetch == CHOOSE k \in CommentsGets : TRUE
    IN  /\ Cardinality(CommentsGets) = 1
        /\ scan.self_approval <=> pc = at_self
        /\ VoteLogins(lgtm_users) = VoteLogins(scan.users)
        /\ pc = at_self => Len(calls) = fetch /\ valid_votes = 0
        /\ pc = at_perm => idx <= Len(lgtm_users)
        /\ pc = at_tally => idx = Len(lgtm_users) + 1
        /\ pc # at_self =>
              /\ Len(calls) = fetch + idx - 1
              /\ \A j \in 1..(idx - 1) :
                    /\ calls[fetch + j] = PermissionCall(lgtm_users[j].login)
                    /\ lgtm_users[j].permission \in lgtm_permissions \cup {"read", None}
              /\ \A j \in idx..Len(lgtm_users) : lgtm_users[j].permission = None
              /\ valid_votes = Cardinality({j \in 1..(idx - 1) :
                                   lgtm_users[j].permission \in lgtm_permissions})

\* how either copy ends on a fatal outcome: the failed fetch without a request
\* after it, the self-approval with its notification alone
FatalOutcomes(cmd, scan) ==
    (command = cmd /\ pc = "done") =>
        /\ CommentsGets = {Len(calls)} =>
              /\ answer.status_code # 200
              /\ exit_code = 1 /\ ret = "none"
        /\ \A k \in 1..Len(calls) :
              Notified(k, "SELF_APPROVAL_ERROR") =>
                  /\ scan.self_approval
                  /\ k = Len(calls) /\ CommentsGets = {k - 1}
                  /\ calls[k].data = pr_sender
                  /\ raised = "none" => exit_code = 1

\* C40: the vote collection embedded in lgtm and _fetch_and_validate_lgtm_votes are
\* equivalent: each one's requests, fatal outcomes, valid-vote count and
\* login-to-permission map are those the scan of the other one gives for the same
\* comments and the same permission answers.
C40_VoteCollectionsAgree ==
    /\ InLgtmCollection =>
          CollectedAs(CollectVotes(comments), "lgtm_self", "lgtm_perm", "lgtm_tally")
    /\ InMergeCollection =>
          CollectedAs(LgtmCollectVotes(comments), "votes_self", "votes_perm", "merge_tally")
    /\ FatalOutcomes("lgtm", CollectVotes(comments))
    /\ FatalOutcomes("merge", LgtmCollectVotes(comments))
    /\ (InLgtmCollection \/ InMergeCollection) =>
          LgtmCollectVotes(comments) = CollectVotes(comments)

\* C40 witness: lgtm's copy has looked up two voters and counted one valid vote
C40_Witness ==
    /\ command = "lgtm" /\ pc = "lgtm_tally"
    /\ Len(lgtm_users) = 2
    /\ Len(comments) = 2
    /\ valid_votes = 1
    /\ LgtmCollectVotes(comments) = CollectVotes(comments)
====
